---- MODULE Spec2Model ----
(***************************************************************************)
(* A model of backup.go: one backup pass of the Drive backup agent.        *)
(*                                                                         *)
(* Strings are sequences of one-character strings, so that the name and    *)
(* timestamp handling of the program (strings.Index, strings.TrimSuffix,   *)
(* filepath.Ext, fmt.Sprintf, time.Format, time.Parse, the byte-wise "<"   *)
(* of Go strings) is computed the way the program computes it.             *)
(*                                                                         *)
(* Time is counted in whole hours since 2025-01-01T00:00:00Z and every     *)
(* instant of the model lies in January 2025; file contents are modelled   *)
(* by their size in bytes.                                                 *)
(***************************************************************************)
EXTENDS Integers, Sequences, FiniteSets, TLC

(***************************************************************************)
(* Strings                                                                 *)
(***************************************************************************)

\* The characters of the model, in ASCII order (Go compares strings byte-wise).
AsciiOrder ==
    << " ", "+", "-", ".", "0", "1", "2", "3", "4", "5", "6", "7", "8", "9", ":",
       "B", "G", "K", "M", "T", "Z", "_",
       "a", "b", "f", "g", "k", "m", "p", "r", "t", "x", "z" >>

Ord(c) == CHOOSE i \in 1..Len(AsciiOrder) : AsciiOrder[i] = c

Digits == << "0", "1", "2", "3", "4", "5", "6", "7", "8", "9" >>

IsDigit(c) == \E i \in 1..10 : Digits[i] = c

DigitVal(c) == (CHOOSE i \in 1..10 : Digits[i] = c) - 1

Min(a, b) == IF a < b THEN a ELSE b

\* s[from+1 .. to] with Go's 0-based, half-open slice bounds s[from:to].
Slice(s, from, to) == SubSeq(s, from + 1, to)

HasPrefixAt(s, sub, i) ==
    /\ i + Len(sub) <= Len(s)
    /\ \A j \in 1..Len(sub) : s[i + j] = sub[j]

\* strings.Index: the 0-based index of the first occurrence of sub in s, or -1.
Index(s, sub) ==
    LET hits == { i \in 0..Len(s) : HasPrefixAt(s, sub, i) }
    IN  IF hits = {} THEN -1 ELSE CHOOSE i \in hits : \A j \in hits : i <= j

Contains(s, sub) == Index(s, sub) # -1

HasSuffix(s, suf) == Len(suf) <= Len(s) /\ HasPrefixAt(s, suf, Len(s) - Len(suf))

\* strings.TrimSuffix
TrimSuffix(s, suf) == IF HasSuffix(s, suf) THEN Slice(s, 0, Len(s) - Len(suf)) ELSE s

\* filepath.Ext of a name without path separators: from the last "." on.
Ext(s) ==
    LET dots == { i \in 1..Len(s) : s[i] = "." }
    IN  IF dots = {} THEN << >>
        ELSE Slice(s, (CHOOSE i \in dots : \A j \in dots : j <= i) - 1, Len(s))

\* strings.ReplaceAll(s, ":", "-")
ReplaceColons(s) == [ i \in 1..Len(s) |-> IF s[i] = ":" THEN "-" ELSE s[i] ]

\* The Go "<" on strings: byte-wise lexicographic order.
StrLess(a, b) ==
    LET n == Min(Len(a), Len(b))
        diff == { i \in 1..n : a[i] # b[i] }
    IN  IF diff = {} THEN Len(a) < Len(b)
        ELSE LET i == CHOOSE k \in diff : \A j \in diff : k <= j
             IN  Ord(a[i]) < Ord(b[i])

RECURSIVE Decimal(_)
\* The decimal digits of n >= 0 (%d).
Decimal(n) == IF n < 10 THEN << Digits[n + 1] >>
              ELSE Decimal(n \div 10) \o << Digits[(n % 10) + 1] >>

RECURSIVE ZeroPad(_, _)
\* %0wd: the decimal digits of n, zero-padded on the left to at least w.
ZeroPad(s, w) == IF Len(s) >= w THEN s ELSE ZeroPad(<< "0" >> \o s, w)

RECURSIVE DecimalValue(_)
\* The value of a sequence of decimal digits.
DecimalValue(s) == IF s = << >> THEN 0
                   ELSE 10 * DecimalValue(Slice(s, 0, Len(s) - 1)) + DigitVal(s[Len(s)])

(***************************************************************************)
(* Time: time.Format / time.Parse with the RFC3339 layout                  *)
(***************************************************************************)

HoursPerDay == 24

\* The numeric zone of RFC3339 ("Z07:00"): "Z" for offset 0, else +hh:00 / -hh:00.
FormatZone(off) ==
    IF off = 0 THEN << "Z" >>
    ELSE << (IF off > 0 THEN "+" ELSE "-") >>
         \o ZeroPad(Decimal(IF off > 0 THEN off ELSE -off), 2) \o << ":", "0", "0" >>

\* t.Format(time.RFC3339) of the instant t in the zone of offset off (hours).
FormatRFC3339(t, off) ==
    LET local == t + off
    IN  << "2", "0", "2", "5", "-", "0", "1", "-" >>
        \o ZeroPad(Decimal((local \div HoursPerDay) + 1), 2) \o << "T" >>
        \o ZeroPad(Decimal(local % HoursPerDay), 2)
        \o << ":", "0", "0", ":", "0", "0" >> \o FormatZone(off)

\* The layout of "2006-01-02T15:04:05": digits and separators in their places.
DateTimeLayoutOK(s) ==
    /\ Len(s) >= 19
    /\ \A i \in {1, 2, 3, 4, 6, 7, 9, 10, 12, 13, 15, 16, 18, 19} : IsDigit(s[i])
    /\ s[5] = "-" /\ s[8] = "-" /\ s[11] = "T" /\ s[14] = ":" /\ s[17] = ":"
    /\ Slice(s, 0, 7) = << "2", "0", "2", "5", "-", "0", "1" >>
    /\ DecimalValue(Slice(s, 8, 10)) \in 1..31
    /\ DecimalValue(Slice(s, 11, 13)) \in 0..23
    /\ DecimalValue(Slice(s, 14, 16)) \in 0..59
    /\ DecimalValue(Slice(s, 17, 19)) \in 0..59

ZoneLayoutOK(z) ==
    \/ z = << "Z" >>
    \/ /\ Len(z) = 6
       /\ z[1] \in {"+", "-"}
       /\ IsDigit(z[2]) /\ IsDigit(z[3]) /\ z[4] = ":" /\ IsDigit(z[5]) /\ IsDigit(z[6])
       /\ DecimalValue(Slice(z, 1, 3)) \in 0..23
       /\ DecimalValue(Slice(z, 4, 6)) \in 0..59

ZoneOffset(z) ==
    IF z = << "Z" >> THEN 0
    ELSE (IF z[1] = "+" THEN 1 ELSE -1) * DecimalValue(Slice(z, 1, 3))

\* time.Parse(time.RFC3339, s): ok is FALSE where Go returns an error; t is the
\* absolute instant (whole hours: minutes and seconds are 00 in the model).
ParseRFC3339(s) ==
    IF DateTimeLayoutOK(s) /\ ZoneLayoutOK(Slice(s, 19, Len(s)))
    THEN [ ok |-> TRUE,
           t  |-> (DecimalValue(Slice(s, 8, 10)) - 1) * HoursPerDay
                  + DecimalValue(Slice(s, 11, 13))
                  - ZoneOffset(Slice(s, 19, Len(s))) ]
    ELSE [ ok |-> FALSE, t |-> 0 ]

\* formatTimestampForFilename: RFC3339, with ":" replaced by "-" when
\* FILENAME_SAFE_TIMESTAMP is "true".
formatTimestampForFilename(t, off, safe) ==
    IF safe THEN ReplaceColons(FormatRFC3339(t, off)) ELSE FormatRFC3339(t, off)

(***************************************************************************)
(* parseSizeString                                                         *)
(***************************************************************************)

LowerOf(c) ==
    CASE c = "B" -> "b" [] c = "G" -> "g" [] c = "K" -> "k" [] c = "M" -> "m"
      [] c = "T" -> "t" [] c = "Z" -> "z" [] OTHER -> c

ToLower(s) == [ i \in 1..Len(s) |-> LowerOf(s[i]) ]

IsSpace(c) == c = " "

RECURSIVE TrimSpace(_)
TrimSpace(s) ==
    IF s = << >> THEN s
    ELSE IF IsSpace(s[1]) THEN TrimSpace(Tail(s))
    ELSE IF IsSpace(s[Len(s)]) THEN TrimSpace(Slice(s, 0, Len(s) - 1))
    ELSE s

\* The length of the longest prefix of s whose characters all satisfy the test.
DigitRun(s) ==
    LET stop == { i \in 1..Len(s) : ~IsDigit(s[i]) }
    IN  IF stop = {} THEN Len(s) ELSE (CHOOSE i \in stop : \A j \in stop : i <= j) - 1

SpaceRun(s) ==
    LET stop == { i \in 1..Len(s) : ~IsSpace(s[i]) }
    IN  IF stop = {} THEN Len(s) ELSE (CHOOSE i \in stop : \A j \in stop : i <= j) - 1

\* The switch on the unit: n for the multiplier 1024^n, -1 for a text that is
\* no unit.
MultiplierPower(unit) ==
    CASE unit = << "b" >> -> 0
      [] unit = << "k", "b" >> -> 1
      [] unit = << "m", "b" >> -> 2
      [] unit = << "g", "b" >> -> 3
      [] unit = << "t", "b" >> -> 4
      [] OTHER -> -1

\* The match of ^(\d+(?:\.\d+)?)\s*(b|kb|mb|gb|tb)$ against s: the integer
\* digits, the fraction digits and the unit, or ok = FALSE.
MatchSize(s) ==
    LET n1   == DigitRun(s)
        r1   == Slice(s, n1, Len(s))
        frac == Len(r1) >= 2 /\ r1[1] = "." /\ IsDigit(r1[2])
        n2   == IF frac THEN DigitRun(Tail(r1)) ELSE 0
        r2   == IF frac THEN Slice(r1, 1 + n2, Len(r1)) ELSE r1
        unit == Slice(r2, SpaceRun(r2), Len(r2))
    IN  [ ok   |-> n1 >= 1 /\ MultiplierPower(unit) # -1,
          int  |-> Slice(s, 0, n1),
          frac |-> IF frac THEN Slice(r1, 1, 1 + n2) ELSE << >>,
          unit |-> unit ]

\* Byte counts are 64-bit values: a count is written in base 1024 as the
\* sequence of its limbs, the least significant first and the last one not 0
\* (0 is the empty sequence).
Limb == 1024

RECURSIVE MulAdd(_, _, _)
\* x * m + c, for 0 < m <= Limb and 0 <= c.
MulAdd(x, m, c) ==
    IF x = << >>
    THEN IF c = 0 THEN << >> ELSE << c % Limb >> \o MulAdd(<< >>, m, c \div Limb)
    ELSE << (Head(x) * m + c) % Limb >> \o MulAdd(Tail(x), m, (Head(x) * m + c) \div Limb)

RECURSIVE FromDigits(_)
\* The value of a sequence of decimal digits, of any length.
FromDigits(s) ==
    IF s = << >> THEN << >>
    ELSE MulAdd(FromDigits(Slice(s, 0, Len(s) - 1)), 10, DigitVal(s[Len(s)]))

\* x * 1024^n
ShiftLimbs(x, n) == IF x = << >> THEN << >> ELSE [ i \in 1..n |-> 0 ] \o x

RECURSIVE Normalize(_)
Normalize(x) ==
    IF x # << >> /\ x[Len(x)] = 0 THEN Normalize(Slice(x, 0, Len(x) - 1)) ELSE x

RECURSIVE DivTop(_, _, _)
\* The long division by d of the limbs i.. of x: the quotient (not normalized)
\* and the remainder.
DivTop(x, i, d) ==
    IF i > Len(x) THEN [ q |-> << >>, r |-> 0 ]
    ELSE [ q |-> << (DivTop(x, i + 1, d).r * Limb + x[i]) \div d >> \o DivTop(x, i + 1, d).q,
           r |-> (DivTop(x, i + 1, d).r * Limb + x[i]) % d ]

RECURSIVE DivPow10(_, _)
\* floor(x / 10^f)
DivPow10(x, f) == IF f = 0 THEN x ELSE DivPow10(Normalize(DivTop(x, 1, 10).q), f - 1)

\* Whether the count is below 2^63 = 8 * 1024^6.
FitsInt64(x) == Len(x) < 7 \/ (Len(x) = 7 /\ x[7] < 8)

\* 2^63 - 1
MaxInt64 == << 1023, 1023, 1023, 1023, 1023, 1023, 7 >>

ParseError == [ ok |-> FALSE, n |-> << >> ]

\* parseSizeString: the results a build of the program can return, ok = FALSE
\* where it returns an error, else n = int64(value * multiplier), the product
\* truncated to an integer. value is the float64 of the number: for the numbers
\* checked (an integer below 2^53 with the fraction .0, .25 or .5, or a number
\* below 1000 with any one fraction digit) the float64 product has the integer
\* part of the exact product. The conversion to int64 of a product of 2^63 or
\* more is implementation-dependent: it gives the least int64 where the
\* processor's conversion returns the "indefinite" value (amd64), for which the
\* program returns its error, and the greatest int64 where it saturates (arm64).
parseSizeString(sizeStr) ==
    LET m == MatchSize(TrimSpace(ToLower(sizeStr)))
        product == DivPow10(ShiftLimbs(FromDigits(m.int \o m.frac), MultiplierPower(m.unit)),
                            Len(m.frac))
    IN  IF ~m.ok THEN { ParseError }
        ELSE IF ~FitsInt64(product) THEN { ParseError, [ ok |-> TRUE, n |-> MaxInt64 ] }
        ELSE IF product = << >> THEN { ParseError }
        ELSE { [ ok |-> TRUE, n |-> product ] }

(***************************************************************************)
(* Names                                                                   *)
(***************************************************************************)

DotTarGz == << ".", "t", "a", "r", ".", "g", "z" >>

DotTarPart == << ".", "t", "a", "r", ".", "p", "a", "r", "t" >>

DotPart == << ".", "p", "a", "r", "t" >>

\* fmt.Sprintf("%s_%s.tar.gz", folderName, timestamp)
TarName(folderName, timestamp) == folderName \o << "_" >> \o timestamp \o DotTarGz

\* A base name that keeps the extension of the archive's name.
WholeName(fileName) == fileName

\* strings.TrimSuffix(fileName, filepath.Ext(fileName))
BaseName(fileName) == TrimSuffix(fileName, Ext(fileName))

\* fmt.Sprintf("%s.part%03d", baseName, chunkNum)
ChunkName(baseName, chunkNum) == baseName \o DotPart \o ZeroPad(Decimal(chunkNum), 3)

(***************************************************************************)
(* State                                                                   *)
(***************************************************************************)

VARIABLES
    pc,               \* the statement the pass is at
    phase,            \* main: the index in MainSteps of the step being run
    now,              \* time.Now(), in hours
    retentionDays,    \* main: RETENTION_DAYS as parsed
    splitSizeStr,     \* the environment's UPLOAD_SPLIT_SIZE
    safeTs,           \* FILENAME_SAFE_TIMESTAMP = "true"
    tzOff,            \* the offset of time.Local, in hours
    remote,           \* the remote store: a set of [id, name, created, trashed]
    nextId,           \* the identifier the store gives the next created object
    apiLog,           \* the requests sent to the store, in order
    files,            \* cleanupOldBackups: files.Files, the listing
    backupGroups,     \* cleanupOldBackups: prefix -> the group's members
    todo,             \* cleanupOldBackups: the prefixes the range has yet to visit
    cur,              \* cleanupOldBackups: the prefix of the group being visited
    created,          \* cleanupOldBackups: the parsed time of that group, [ok, t]
    di,               \* cleanupOldBackups: the index of the next member to delete
    cleanupRet,       \* cleanupOldBackups: "" (running), "nil" or "error"
    folders,          \* main: the entries of the backup directory, [name, isDir]
    fidx,             \* main: the index of the entry the folder loop is at
    tarName,          \* main: the name of the archive of the current folder
    localFiles,       \* the temporary directory: file name -> size in bytes
    buildLog,         \* the folders compressFolder was called for, in order
    compressRet,      \* compressFolder: the walk's result, a failed Close, the return
    splitSize,        \* uploadToDrive: the split size in bytes, 0 for none
    filesToUpload,    \* uploadToDrive: the local files to upload, in order
    fileNames,        \* uploadToDrive: the remote name of each
    uploadedFileIDs,  \* uploadToDrive: the identifiers the store returned
    ui,               \* uploadToDrive: the index of the file being uploaded
    uploadRet,        \* uploadToDrive: what it returned, [id, err, name]
    chunkNum,         \* splitFile: the number of the chunk being written
    chunkFiles,       \* splitFile: the chunks written so far
    offset,           \* splitFile: the bytes of the input read so far
    splitRet          \* splitFile: "" (running), "nil" or "error"

\* No call of compressFolder for the current folder yet.
NoBuild == [ walk |-> "", closeErr |-> FALSE, err |-> "" ]

envVars == << now, retentionDays, splitSizeStr, safeTs, tzOff >>

storeVars == << remote, nextId, apiLog >>

cleanupVars == << files, backupGroups, todo, cur, created, di, cleanupRet >>

mainVars == << folders, fidx, tarName, buildLog, compressRet >>

uploadVars == << splitSize, filesToUpload, fileNames, uploadedFileIDs, ui, uploadRet >>

splitVars == << chunkNum, chunkFiles, offset, splitRet >>

vars == << pc, phase, envVars, storeVars, cleanupVars, mainVars, localFiles,
           uploadVars, splitVars >>

\* What cleanupOldBackups leaves alone.
restOfCleanup == << phase, envVars, mainVars, localFiles, uploadVars, splitVars >>

\* What uploadToDrive and splitFile leave alone.
restOfUpload == << phase, envVars, cleanupVars, mainVars >>

(***************************************************************************)
(* cleanupOldBackups                                                       *)
(***************************************************************************)

\* time.Now().AddDate(0, 0, -retentionDays)
Cutoff(t, days) == t - days * HoursPerDay

\* The list query: (name contains '.tar.gz' or name contains '.part') and
\* trashed = false.
QueryMatches(f) ==
    (Contains(f.name, DotTarGz) \/ Contains(f.name, DotPart)) /\ ~f.trashed

\* A group key that knows only the ".tar.gz" marker.
PrefixGzOnly(name) ==
    IF Index(name, DotTarGz) # -1 THEN Slice(name, 0, Index(name, DotTarGz)) ELSE name

\* The group key of a name: everything up to the first ".tar.gz", else up to the
\* first ".tar.part", else the whole name.
Prefix(name) ==
    IF Index(name, DotTarGz) # -1 THEN Slice(name, 0, Index(name, DotTarGz))
    ELSE IF Index(name, DotTarPart) # -1 THEN Slice(name, 0, Index(name, DotTarPart))
    ELSE name

\* The grouping loop: backupGroups[prefix] lists, in listing order, the files
\* whose name has that prefix.
GroupFiles(listing) ==
    [ k \in { Prefix(listing[i].name) : i \in 1..Len(listing) } |->
        SelectSeq(listing, LAMBDA f : Prefix(f.name) = k) ]

RECURSIVE EarliestFrom(_, _, _)
\* The scan for the earliest createdTime: earliest is replaced by each member
\* whose created string is smaller.
EarliestFrom(group, i, earliest) ==
    IF i > Len(group) THEN earliest
    ELSE EarliestFrom(group, i + 1,
                      IF StrLess(group[i].created, earliest.created)
                      THEN group[i] ELSE earliest)

Earliest(group) == EarliestFrom(group, 1, group[1])

\* A sweeper without an age rule: it deletes only when nothing is retained.
ShouldDeleteOnlyAtZero(days, t, cutoff) == days = 0

\* A comparison that also deletes a group created exactly at the horizon.
ShouldDeleteAtHorizon(days, t, cutoff) == days = 0 \/ t <= cutoff

\* retentionDays == 0 || created.Before(cutoff)
ShouldDelete(days, t, cutoff) == days = 0 \/ t < cutoff

\* All orders in which a list call may return the set S of files.
Orderings(S) ==
    { q \in [ 1..Cardinality(S) -> S ] : \A i, j \in 1..Cardinality(S) : i # j => q[i] # q[j] }

LogList == [ op |-> "list", id |-> 0, name |-> << >>, ok |-> TRUE ]

LogDelete(f, ok) == [ op |-> "delete", id |-> f.id, name |-> f.name, ok |-> ok ]

\* srv.Files.List()...Do() fails: cleanupOldBackups returns the error.
CleanupListError ==
    /\ pc = "cl_list"
    /\ apiLog' = Append(apiLog, [ LogList EXCEPT !.ok = FALSE ])
    /\ cleanupRet' = "error"
    /\ pc' = "cl_ret"
    /\ UNCHANGED << restOfCleanup, remote, nextId, files, backupGroups, todo, cur, created, di >>

\* The list call succeeds, returning the matching objects in some order; the
\* files are grouped by prefix.
CleanupList ==
    /\ pc = "cl_list"
    /\ \E listing \in Orderings({ f \in remote : QueryMatches(f) }) :
          /\ files' = listing
          /\ backupGroups' = GroupFiles(listing)
          /\ todo' = DOMAIN GroupFiles(listing)
    /\ apiLog' = Append(apiLog, LogList)
    /\ pc' = "cl_groups"
    /\ UNCHANGED << restOfCleanup, remote, nextId, cur, created, di, cleanupRet >>

\* The range over the map visits a group, in no fixed order: the earliest
\* createdTime of the group is parsed.
CleanupVisitGroup ==
    /\ pc = "cl_groups"
    /\ \E prefix \in todo :
          /\ todo' = todo \ {prefix}
          /\ cur' = prefix
          /\ created' = ParseRFC3339(Earliest(backupGroups[prefix]).created)
    /\ pc' = "cl_parsed"
    /\ UNCHANGED << restOfCleanup, storeVars, files, backupGroups, di, cleanupRet >>

\* A group whose earliest createdTime does not parse is skipped.
CleanupGroupParseError ==
    /\ pc = "cl_parsed"
    /\ ~created.ok
    /\ pc' = "cl_groups"
    /\ UNCHANGED << restOfCleanup, storeVars, cleanupVars >>

\* A group that is not to be deleted is left alone.
CleanupGroupKept ==
    /\ pc = "cl_parsed"
    /\ created.ok
    /\ ~ShouldDelete(retentionDays, created.t, Cutoff(now, retentionDays))
    /\ pc' = "cl_groups"
    /\ UNCHANGED << restOfCleanup, storeVars, cleanupVars >>

\* A group to delete: the delete loop over its members starts.
CleanupGroupDelete ==
    /\ pc = "cl_parsed"
    /\ created.ok
    /\ ShouldDelete(retentionDays, created.t, Cutoff(now, retentionDays))
    /\ di' = 1
    /\ pc' = "cl_delete"
    /\ UNCHANGED << restOfCleanup, storeVars, files, backupGroups, todo, cur, created, cleanupRet >>

\* A delete loop that returns the error of a failed delete.
CleanupDeleteOrReturn ==
    /\ pc = "cl_delete"
    /\ di <= Len(backupGroups[cur])
    /\ LET fi == backupGroups[cur][di]
       IN  \E ok \in BOOLEAN :
             /\ apiLog' = Append(apiLog, LogDelete(fi, ok))
             /\ remote' = IF ok THEN { f \in remote : f.id # fi.id } ELSE remote
             /\ pc' = IF ok THEN pc ELSE "cl_ret"
             /\ cleanupRet' = IF ok THEN cleanupRet ELSE "error"
    /\ di' = di + 1
    /\ UNCHANGED << restOfCleanup, nextId, files, backupGroups, todo, cur, created >>

\* srv.Files.Delete(fi.id)...Do() on the next member: the store removes the
\* object, or the call fails, which is logged; the loop goes on either way.
CleanupDelete ==
    /\ pc = "cl_delete"
    /\ di <= Len(backupGroups[cur])
    /\ LET fi == backupGroups[cur][di]
       IN  \E ok \in BOOLEAN :
             /\ apiLog' = Append(apiLog, LogDelete(fi, ok))
             /\ remote' = IF ok THEN { f \in remote : f.id # fi.id } ELSE remote
    /\ di' = di + 1
    /\ UNCHANGED << pc, restOfCleanup, nextId, files, backupGroups, todo, cur, created, cleanupRet >>

\* The delete loop of the group is over: on to the next group.
CleanupGroupDone ==
    /\ pc = "cl_delete"
    /\ di > Len(backupGroups[cur])
    /\ pc' = "cl_groups"
    /\ UNCHANGED << restOfCleanup, storeVars, cleanupVars >>

\* Every group was visited: return nil.
CleanupReturn ==
    /\ pc = "cl_groups"
    /\ todo = {}
    /\ cleanupRet' = "nil"
    /\ pc' = "cl_ret"
    /\ UNCHANGED << restOfCleanup, storeVars, files, backupGroups, todo, cur, created, di >>

CleanupNext ==
    \/ CleanupListError
    \/ CleanupList
    \/ CleanupVisitGroup
    \/ CleanupGroupParseError
    \/ CleanupGroupKept
    \/ CleanupGroupDelete
    \/ CleanupDelete
    \/ CleanupGroupDone
    \/ CleanupReturn

(***************************************************************************)
(* splitFile                                                               *)
(***************************************************************************)

\* io.CopyN(output, input, splitSize): the bytes written to the chunk.
BytesWritten(size, off, chunk) == Min(chunk, size - off)

\* f with the file name added (or truncated and rewritten) with the given size.
WriteFile(f, name, size) ==
    [ n \in (DOMAIN f) \cup {name} |-> IF n = name THEN size ELSE f[n] ]

\* os.Remove
RemoveFile(f, name) == [ n \in (DOMAIN f) \ {name} |-> f[n] ]

\* os.Open(inputPath) fails.
SplitOpenError ==
    /\ pc = "sp_open"
    /\ splitRet' = "error"
    /\ pc' = "sp_ret"
    /\ UNCHANGED << restOfUpload, storeVars, localFiles, uploadVars, chunkNum, chunkFiles, offset >>

SplitOpen ==
    /\ pc = "sp_open"
    /\ chunkNum' = 1
    /\ chunkFiles' = << >>
    /\ offset' = 0
    /\ pc' = "sp_loop"
    /\ UNCHANGED << restOfUpload, storeVars, localFiles, uploadVars, splitRet >>

\* os.Create(chunkPath) fails: the chunks written so far stay on disk.
SplitCreateError ==
    /\ pc = "sp_loop"
    /\ splitRet' = "error"
    /\ pc' = "sp_ret"
    /\ UNCHANGED << restOfUpload, storeVars, localFiles, uploadVars, chunkNum, chunkFiles, offset >>

\* io.CopyN fails with an error other than io.EOF: the chunk file is removed.
SplitReadError ==
    /\ pc = "sp_loop"
    /\ localFiles' = RemoveFile(localFiles, ChunkName(BaseName(tarName), chunkNum))
    /\ splitRet' = "error"
    /\ pc' = "sp_ret"
    /\ UNCHANGED << restOfUpload, storeVars, uploadVars, chunkNum, chunkFiles, offset >>

\* A turn of the loop that keeps and lists the chunk whatever it holds.
SplitChunkKeepsEmpty ==
    /\ pc = "sp_loop"
    /\ LET chunkPath    == ChunkName(BaseName(tarName), chunkNum)
           bytesWritten == BytesWritten(localFiles[tarName], offset, splitSize)
       IN  /\ chunkFiles' = Append(chunkFiles, chunkPath)
           /\ localFiles' = WriteFile(localFiles, chunkPath, bytesWritten)
           /\ offset' = offset + bytesWritten
           /\ IF bytesWritten < splitSize
              THEN /\ chunkNum' = chunkNum
                   /\ splitRet' = "nil"
                   /\ pc' = "sp_ret"
              ELSE /\ chunkNum' = chunkNum + 1
                   /\ splitRet' = splitRet
                   /\ pc' = "sp_loop"
    /\ UNCHANGED << restOfUpload, storeVars, uploadVars >>

\* One turn of the loop: the chunk file is created and filled; it is kept and
\* listed when it holds bytes and removed when it is empty; the loop ends when
\* fewer than splitSize bytes were written.
SplitChunk ==
    /\ pc = "sp_loop"
    /\ LET chunkPath    == ChunkName(BaseName(tarName), chunkNum)
           bytesWritten == BytesWritten(localFiles[tarName], offset, splitSize)
       IN  /\ IF bytesWritten > 0
              THEN /\ chunkFiles' = Append(chunkFiles, chunkPath)
                   /\ localFiles' = WriteFile(localFiles, chunkPath, bytesWritten)
              ELSE /\ chunkFiles' = chunkFiles
                   /\ localFiles' = RemoveFile(WriteFile(localFiles, chunkPath, 0), chunkPath)
           /\ offset' = offset + bytesWritten
           /\ IF bytesWritten < splitSize
              THEN /\ chunkNum' = chunkNum
                   /\ splitRet' = "nil"
                   /\ pc' = "sp_ret"
              ELSE /\ chunkNum' = chunkNum + 1
                   /\ splitRet' = splitRet
                   /\ pc' = "sp_loop"
    /\ UNCHANGED << restOfUpload, storeVars, uploadVars >>

SplitNext == SplitOpenError \/ SplitOpen \/ SplitCreateError \/ SplitReadError \/ SplitChunk

(***************************************************************************)
(* uploadToDrive                                                           *)
(***************************************************************************)

NoReturn == [ id |-> 0, err |-> "", name |-> << >> ]

ReturnError(kind, name) == [ id |-> 0, err |-> kind, name |-> name ]

\* The values of UPLOAD_SPLIT_SIZE the uploads are run with: unset, valid sizes
\* (one with a space and an upper-case unit) and values parseSizeString rejects.
SplitSizeStrs ==
    { << >>, << "1", "b" >>, << "3", " ", "B" >>, << "1", "k", "b" >>,
      << "x" >>, << "0", "b" >> }

\* The spellings of the unit of 1024^n.
UnitSpellings(n) ==
    CASE n = 0 -> { << "b" >>, << "B" >> }
      [] n = 1 -> { << "k", "b" >>, << "K", "B" >>, << "K", "b" >> }
      [] n = 2 -> { << "m", "b" >>, << "M", "B" >>, << "M", "b" >> }
      [] n = 3 -> { << "g", "b" >>, << "G", "B" >>, << "g", "B" >> }
      [] n = 4 -> { << "t", "b" >>, << "T", "B" >>, << "T", "b" >> }

\* The integer digits of the sizes parseSizeString is run on: 8388608 is 2^23,
\* so that 8388608tb is 2^63 bytes.
SizeInts ==
    { << "0" >>, << "1" >>, << "1", "0", "0" >>,
      << "8", "3", "8", "8", "6", "0", "7" >>, << "8", "3", "8", "8", "6", "0", "8" >> }

\* Their fraction digits (none, .5, .25 and, for the numbers below 1000, .1).
SizeFracs(int) ==
    { << >>, << "5" >>, << "2", "5" >> } \cup (IF Len(int) <= 3 THEN { << "1" >> } ELSE { })

Blanks == { << >>, << " " >> }

\* The well-formed size strings: a non-negative decimal number, an optional
\* space and a unit, with or without whitespace around them.
SizeForms ==
    { f \in [ lead : Blanks, int : SizeInts, frac : { << >>, << "1" >>, << "5" >>, << "2", "5" >> },
              gap : Blanks, n : 0..4, unit : UNION { UnitSpellings(n) : n \in 0..4 },
              trail : Blanks ] :
        f.frac \in SizeFracs(f.int) /\ f.unit \in UnitSpellings(f.n) }

SizeText(f) ==
    f.lead \o f.int \o (IF f.frac = << >> THEN << >> ELSE << "." >> \o f.frac)
           \o f.gap \o f.unit \o f.trail

SizeTexts == { SizeText(f) : f \in SizeForms }

\* Size strings without a unit, with a text that is no unit, and with a
\* magnitude that is not a decimal number.
BadSizeTexts ==
    { << "1", "0", "0" >>, << "1", ".", "5" >>, << "1", " " >>,
      << "1", "p", "b" >>, << "1", "k" >>, << "1", "m" >>, << "1", "b", "b" >>,
      << "1", "k", "b", "x" >>, << "1", "m", " ", "b" >>,
      << "m", "b" >>, << "x", "m", "b" >>, << "-", "1", "m", "b" >>, << "+", "1", "b" >>,
      << "1", ".", "m", "b" >>, << ".", "5", "m", "b" >>, << "1", ".", "5", ".", "5", "b" >>,
      << "1", " ", "0", "b" >>, << "1", ":", "b" >> }

\* The sizes of the model's archives are below SizeCap: a byte count is held
\* as a number, and every count of SizeCap or more as SizeCap, so that each
\* comparison with an archive's size is as with the exact count.
SizeCap == 1024 * 1024

SizeOf(n) ==
    IF Len(n) > 2 THEN SizeCap
    ELSE IF Len(n) = 2 THEN n[1] + Limb * n[2]
    ELSE IF Len(n) = 1 THEN n[1]
    ELSE 0

\* The split sizes read from UPLOAD_SPLIT_SIZE: 0 when unset or invalid.
SplitSizeOf(str) ==
    IF str = << >> THEN { 0 }
    ELSE { IF r.ok THEN SizeOf(r.n) ELSE 0 : r \in parseSizeString(str) }

\* The split sizes of the strings of SplitSizeStrs, computed once.
SplitSizes == [ str \in SplitSizeStrs |-> SplitSizeOf(str) ]

\* A split decision that also splits an archive of exactly the split size.
ShouldSplitAtSize(split, size) == split > 0 /\ size >= split

\* splitSize > 0 && fileInfo.Size() > splitSize
ShouldSplit(split, size) == split > 0 /\ size > split

\* A return of the identifier of the last upload.
ReturnLastId(ids) == [ id |-> ids[Len(ids)], err |-> "nil", name |-> << >> ]

\* What uploadToDrive returns after its loop: the first identifier.
ReturnValue(ids) == [ id |-> ids[1], err |-> "nil", name |-> << >> ]

LogCreate(name, id, ok) == [ op |-> "create", id |-> id, name |-> name, ok |-> ok ]

\* The object the store creates: the server stamps its creation time, in UTC.
NewObject(id, name, t) ==
    [ id |-> id, name |-> name, created |-> FormatRFC3339(t, 0), trashed |-> FALSE ]

UploadReadEnv ==
    /\ pc = "up_start"
    /\ splitSize' \in (IF splitSizeStr \in SplitSizeStrs THEN SplitSizes[splitSizeStr]
                      ELSE SplitSizeOf(splitSizeStr))
    /\ filesToUpload' = << >>
    /\ fileNames' = << >>
    /\ uploadedFileIDs' = << >>
    /\ ui' = 1
    /\ uploadRet' = NoReturn
    /\ pc' = "up_stat"
    /\ UNCHANGED << restOfUpload, storeVars, localFiles, splitVars >>

\* os.Stat(filePath) fails.
UploadStatError ==
    /\ pc = "up_stat"
    /\ uploadRet' = ReturnError("stat", tarName)
    /\ pc' = "up_ret"
    /\ UNCHANGED << restOfUpload, storeVars, localFiles, splitVars,
                    splitSize, filesToUpload, fileNames, uploadedFileIDs, ui >>

\* The archive is larger than the split size: splitFile is called.
UploadCallSplit ==
    /\ pc = "up_stat"
    /\ ShouldSplit(splitSize, localFiles[tarName])
    /\ splitRet' = ""
    /\ pc' = "sp_open"
    /\ UNCHANGED << restOfUpload, storeVars, localFiles, uploadVars, chunkNum, chunkFiles, offset >>

\* The original file is uploaded under the archive's name.
UploadWhole ==
    /\ pc = "up_stat"
    /\ ~ShouldSplit(splitSize, localFiles[tarName])
    /\ filesToUpload' = << tarName >>
    /\ fileNames' = << tarName >>
    /\ pc' = "up_loop"
    /\ UNCHANGED << restOfUpload, storeVars, localFiles, splitVars,
                    splitSize, uploadedFileIDs, ui, uploadRet >>

\* splitFile returned an error.
UploadSplitFailed ==
    /\ pc = "sp_ret"
    /\ splitRet = "error"
    /\ uploadRet' = ReturnError("split", tarName)
    /\ pc' = "up_ret"
    /\ UNCHANGED << restOfUpload, storeVars, localFiles, splitVars,
                    splitSize, filesToUpload, fileNames, uploadedFileIDs, ui >>

\* splitFile returned the chunks: each is uploaded under its base name.
UploadSplitDone ==
    /\ pc = "sp_ret"
    /\ splitRet = "nil"
    /\ filesToUpload' = chunkFiles
    /\ fileNames' = chunkFiles
    /\ pc' = "up_loop"
    /\ UNCHANGED << restOfUpload, storeVars, localFiles, splitVars,
                    splitSize, uploadedFileIDs, ui, uploadRet >>

\* os.Open(uploadPath) fails.
UploadOpenError ==
    /\ pc = "up_loop"
    /\ ui <= Len(filesToUpload)
    /\ uploadRet' = ReturnError("open", filesToUpload[ui])
    /\ pc' = "up_ret"
    /\ UNCHANGED << restOfUpload, storeVars, localFiles, splitVars,
                    splitSize, filesToUpload, fileNames, uploadedFileIDs, ui >>

\* A failed create that rolls the upload back: the objects created so far are
\* deleted from the store before the error is returned.
UploadCreateErrorRollsBack ==
    /\ pc = "up_loop"
    /\ ui <= Len(filesToUpload)
    /\ apiLog' = Append(apiLog, LogCreate(fileNames[ui], 0, FALSE))
                   \o [ i \in 1..Len(uploadedFileIDs) |->
                          [ op |-> "delete", id |-> uploadedFileIDs[i], name |-> << >>, ok |-> TRUE ] ]
    /\ remote' = { o \in remote : \A i \in 1..Len(uploadedFileIDs) : o.id # uploadedFileIDs[i] }
    /\ uploadRet' = ReturnError("upload", fileNames[ui])
    /\ pc' = "up_ret"
    /\ UNCHANGED << restOfUpload, nextId, localFiles, splitVars,
                    splitSize, filesToUpload, fileNames, uploadedFileIDs, ui >>

\* createCall.Do() fails: the error names the file and nothing more is uploaded.
UploadCreateError ==
    /\ pc = "up_loop"
    /\ ui <= Len(filesToUpload)
    /\ apiLog' = Append(apiLog, LogCreate(fileNames[ui], 0, FALSE))
    /\ uploadRet' = ReturnError("upload", fileNames[ui])
    /\ pc' = "up_ret"
    /\ UNCHANGED << restOfUpload, remote, nextId, localFiles, splitVars,
                    splitSize, filesToUpload, fileNames, uploadedFileIDs, ui >>

\* createCall.Do() succeeds: the store creates the object and returns its id.
UploadCreate ==
    /\ pc = "up_loop"
    /\ ui <= Len(filesToUpload)
    /\ apiLog' = Append(apiLog, LogCreate(fileNames[ui], nextId, TRUE))
    /\ remote' = remote \cup { NewObject(nextId, fileNames[ui], now) }
    /\ nextId' = nextId + 1
    /\ uploadedFileIDs' = Append(uploadedFileIDs, nextId)
    /\ IF Len(filesToUpload) > 1
       THEN pc' = "up_rm" /\ ui' = ui
       ELSE pc' = "up_loop" /\ ui' = ui + 1
    /\ UNCHANGED << restOfUpload, localFiles, splitVars,
                    splitSize, filesToUpload, fileNames, uploadRet >>

\* A clean-up that removes the chunk after the one just uploaded.
UploadRemoveChunkAhead ==
    /\ pc = "up_rm"
    /\ \E ok \in BOOLEAN :
          localFiles' = IF ok /\ ui < Len(filesToUpload)
                        THEN RemoveFile(localFiles, filesToUpload[ui + 1])
                        ELSE localFiles
    /\ ui' = ui + 1
    /\ pc' = "up_loop"
    /\ UNCHANGED << restOfUpload, storeVars, splitVars,
                    splitSize, filesToUpload, fileNames, uploadedFileIDs, uploadRet >>

\* os.Remove(uploadPath) of an uploaded chunk; a failure is only logged.
UploadRemoveChunk ==
    /\ pc = "up_rm"
    /\ \E ok \in BOOLEAN :
          localFiles' = IF ok THEN RemoveFile(localFiles, filesToUpload[ui]) ELSE localFiles
    /\ ui' = ui + 1
    /\ pc' = "up_loop"
    /\ UNCHANGED << restOfUpload, storeVars, splitVars,
                    splitSize, filesToUpload, fileNames, uploadedFileIDs, uploadRet >>

UploadReturn ==
    /\ pc = "up_loop"
    /\ ui > Len(filesToUpload)
    /\ uploadRet' = ReturnValue(uploadedFileIDs)
    /\ pc' = "up_ret"
    /\ UNCHANGED << restOfUpload, storeVars, localFiles, splitVars,
                    splitSize, filesToUpload, fileNames, uploadedFileIDs, ui >>

UploadNext ==
    \/ UploadReadEnv
    \/ UploadStatError
    \/ UploadCallSplit
    \/ UploadWhole
    \/ UploadSplitFailed
    \/ UploadSplitDone
    \/ UploadOpenError
    \/ UploadCreateError
    \/ UploadCreate
    \/ UploadRemoveChunk
    \/ UploadReturn
    \/ SplitNext

(***************************************************************************)
(* compressFolder and main                                                 *)
(***************************************************************************)

\* A main that sweeps after the folder loop.
MainStepsSweepLast == << "folders", "cleanup", "done" >>

\* The order of main: the retention sweep, then the folder loop.
MainSteps == << "cleanup", "folders", "done" >>

\* A fatal error while setting up (temp dir, backup dir, credentials, client).
MainSetupFatal ==
    /\ pc = "setup"
    /\ pc' = "exit"
    /\ UNCHANGED << phase, envVars, storeVars, cleanupVars, mainVars, localFiles,
                    uploadVars, splitVars >>

MainSetup ==
    /\ pc = "setup"
    /\ phase' = 1
    /\ pc' = "main"
    /\ UNCHANGED << envVars, storeVars, cleanupVars, mainVars, localFiles,
                    uploadVars, splitVars >>

MainCallCleanup ==
    /\ pc = "main"
    /\ MainSteps[phase] = "cleanup"
    /\ cleanupRet' = ""
    /\ pc' = "cl_list"
    /\ UNCHANGED << restOfCleanup, storeVars, files, backupGroups, todo, cur, created, di >>

\* cleanupOldBackups returned: an error is only logged.
MainCleanupReturned ==
    /\ pc = "cl_ret"
    /\ phase' = phase + 1
    /\ pc' = "main"
    /\ UNCHANGED << envVars, storeVars, cleanupVars, mainVars, localFiles,
                    uploadVars, splitVars >>

MainStartFolders ==
    /\ pc = "main"
    /\ MainSteps[phase] = "folders"
    /\ fidx' = 1
    /\ pc' = "fo_loop"
    /\ UNCHANGED << phase, envVars, storeVars, cleanupVars, folders, tarName, buildLog, compressRet,
                    localFiles, uploadVars, splitVars >>

\* An entry that is no directory is skipped.
MainSkipEntry ==
    /\ pc = "fo_loop"
    /\ fidx <= Len(folders)
    /\ ~folders[fidx].isDir
    /\ fidx' = fidx + 1
    /\ UNCHANGED << pc, phase, envVars, storeVars, cleanupVars, folders, tarName, buildLog, compressRet,
                    localFiles, uploadVars, splitVars >>

\* The archive of the folder is named after the folder and the local time.
MainNextFolder ==
    /\ pc = "fo_loop"
    /\ fidx <= Len(folders)
    /\ folders[fidx].isDir
    /\ tarName' = TarName(folders[fidx].name, formatTimestampForFilename(now, tzOff, safeTs))
    /\ buildLog' = Append(buildLog, folders[fidx].name)
    /\ compressRet' = NoBuild
    /\ pc' = "fo_compress"
    /\ UNCHANGED << phase, envVars, storeVars, cleanupVars, folders, fidx,
                    localFiles, uploadVars, splitVars >>

\* compressFolder: os.Create(dest) fails.
CompressCreateError ==
    /\ pc = "fo_compress"
    /\ compressRet' = [ walk |-> "", closeErr |-> FALSE, err |-> "create" ]
    /\ fidx' = fidx + 1
    /\ pc' = "fo_loop"
    /\ UNCHANGED << phase, envVars, storeVars, cleanupVars, folders, tarName, buildLog,
                    localFiles, uploadVars, splitVars >>

\* A main that ignores the error of the walk and uploads what was written.
CompressWalkErrorIgnored ==
    /\ pc = "fo_compress"
    /\ \E n \in 0..(folders[fidx].size - 1) :
          localFiles' = WriteFile(localFiles, tarName, n)
    /\ \E c \in BOOLEAN :
          compressRet' = [ walk |-> "error", closeErr |-> c, err |-> "error" ]
    /\ pc' = "up_start"
    /\ UNCHANGED << phase, envVars, storeVars, cleanupVars, folders, fidx, tarName, buildLog,
                    uploadVars, splitVars >>

\* compressFolder: the walk fails and its error is returned, whether or not
\* the deferred Close calls fail too; the part written so far stays at dest.
CompressWalkError ==
    /\ pc = "fo_compress"
    /\ \E n \in 0..(folders[fidx].size - 1) :
          localFiles' = WriteFile(localFiles, tarName, n)
    /\ \E c \in BOOLEAN :
          compressRet' = [ walk |-> "error", closeErr |-> c, err |-> "error" ]
    /\ fidx' = fidx + 1
    /\ pc' = "fo_loop"
    /\ UNCHANGED << phase, envVars, storeVars, cleanupVars, folders, tarName, buildLog,
                    uploadVars, splitVars >>

\* A compressFolder that returns the error of a failed Close.
CompressCloseErrorReturned ==
    /\ pc = "fo_compress"
    /\ \E n \in 0..(folders[fidx].size - 1) :
          localFiles' = WriteFile(localFiles, tarName, n)
    /\ compressRet' = [ walk |-> "nil", closeErr |-> TRUE, err |-> "error" ]
    /\ fidx' = fidx + 1
    /\ pc' = "fo_loop"
    /\ UNCHANGED << phase, envVars, storeVars, cleanupVars, folders, tarName, buildLog,
                    uploadVars, splitVars >>

\* compressFolder: the walk succeeds and a deferred tarWriter.Close(),
\* gz.Close() or out.Close() fails: its error is dropped, the archive at dest
\* lacks its last bytes, nil is returned and uploadToDrive is called.
CompressCloseError ==
    /\ pc = "fo_compress"
    /\ \E n \in 0..(folders[fidx].size - 1) :
          localFiles' = WriteFile(localFiles, tarName, n)
    /\ compressRet' = [ walk |-> "nil", closeErr |-> TRUE, err |-> "nil" ]
    /\ pc' = "up_start"
    /\ UNCHANGED << phase, envVars, storeVars, cleanupVars, folders, fidx, tarName, buildLog,
                    uploadVars, splitVars >>

\* compressFolder returns nil: the archive is at dest; uploadToDrive is called.
CompressOK ==
    /\ pc = "fo_compress"
    /\ localFiles' = WriteFile(localFiles, tarName, folders[fidx].size)
    /\ compressRet' = [ walk |-> "nil", closeErr |-> FALSE, err |-> "nil" ]
    /\ pc' = "up_start"
    /\ UNCHANGED << phase, envVars, storeVars, cleanupVars, folders, fidx, tarName, buildLog,
                    uploadVars, splitVars >>

\* A main for which a failed upload is fatal.
MainUploadFailedExits ==
    /\ pc = "up_ret"
    /\ uploadRet.err # "nil"
    /\ pc' = "exit"
    /\ UNCHANGED << phase, envVars, storeVars, cleanupVars, mainVars, localFiles,
                    uploadVars, splitVars >>

\* A main that removes the archive of a folder whose upload failed.
MainUploadFailedRemovesArchive ==
    /\ pc = "up_ret"
    /\ uploadRet.err # "nil"
    /\ localFiles' = RemoveFile(localFiles, tarName)
    /\ fidx' = fidx + 1
    /\ pc' = "fo_loop"
    /\ UNCHANGED << phase, envVars, storeVars, cleanupVars, folders, tarName, buildLog, compressRet,
                    uploadVars, splitVars >>

\* uploadToDrive returned an error: logged, on to the next folder.
MainUploadFailed ==
    /\ pc = "up_ret"
    /\ uploadRet.err # "nil"
    /\ fidx' = fidx + 1
    /\ pc' = "fo_loop"
    /\ UNCHANGED << phase, envVars, storeVars, cleanupVars, folders, tarName, buildLog, compressRet,
                    localFiles, uploadVars, splitVars >>

\* uploadToDrive returned nil: os.Remove(tarPath); a failure is only logged.
MainRemoveArchive ==
    /\ pc = "up_ret"
    /\ uploadRet.err = "nil"
    /\ \E ok \in BOOLEAN :
          localFiles' = IF ok THEN RemoveFile(localFiles, tarName) ELSE localFiles
    /\ fidx' = fidx + 1
    /\ pc' = "fo_loop"
    /\ UNCHANGED << phase, envVars, storeVars, cleanupVars, folders, tarName, buildLog, compressRet,
                    uploadVars, splitVars >>

MainFoldersDone ==
    /\ pc = "fo_loop"
    /\ fidx > Len(folders)
    /\ phase' = phase + 1
    /\ pc' = "main"
    /\ UNCHANGED << envVars, storeVars, cleanupVars, mainVars, localFiles,
                    uploadVars, splitVars >>

MainDone ==
    /\ pc = "main"
    /\ MainSteps[phase] = "done"
    /\ pc' = "done"
    /\ UNCHANGED << phase, envVars, storeVars, cleanupVars, mainVars, localFiles,
                    uploadVars, splitVars >>

MainNext ==
    \/ MainSetupFatal
    \/ MainSetup
    \/ MainCallCleanup
    \/ MainCleanupReturned
    \/ MainStartFolders
    \/ MainSkipEntry
    \/ MainNextFolder
    \/ CompressCreateError
    \/ CompressWalkError
    \/ CompressCloseError
    \/ CompressOK
    \/ MainUploadFailed
    \/ MainRemoveArchive
    \/ MainFoldersDone
    \/ MainDone

(***************************************************************************)
(* Inputs and specifications                                               *)
(***************************************************************************)

MaxRetentionDays == 2

MaxFiles == 3

MaxSize == 10

\* The time of the pass: 2025-01-05T04:00:00Z.
StartTime == 4 * HoursPerDay + 4

\* The horizon of a retention of one day.
Horizon == Cutoff(StartTime, 1)

FolderF == << "f" >>

FolderG == << "g" >>

\* A folder whose own name holds ".tar.gz".
FolderDotted == << "b" >> \o DotTarGz

Stamp == formatTimestampForFilename(StartTime - 2 * HoursPerDay, 0, FALSE)

\* Names found in the store: an unsplit archive, a chunk of an archive of the
\* same folder and time, and a chunk named after the whole archive name.
StoreNames ==
    << TarName(FolderF, Stamp),
       ChunkName(BaseName(TarName(FolderF, Stamp)), 1),
       ChunkName(TarName(FolderG, Stamp), 1) >>

\* createdTime values found in the store: one hour before the horizon, at the
\* horizon, one hour after it, one hour before it written in the zone +05:00,
\* and a value that is no RFC3339 time.
StoreTimes ==
    << FormatRFC3339(Horizon - 1, 0),
       FormatRFC3339(Horizon, 0),
       FormatRFC3339(Horizon + 1, 0),
       FormatRFC3339(Horizon - 1, 5),
       << >> >>

\* The objects the store may hold when the pass starts; the identifier of an
\* object is its place in this catalogue.
Catalogue ==
    [ i \in 1..(Len(StoreNames) * Len(StoreTimes)) |->
        [ id      |-> i,
          name    |-> StoreNames[((i - 1) \div Len(StoreTimes)) + 1],
          created |-> StoreTimes[((i - 1) % Len(StoreTimes)) + 1],
          trashed |-> FALSE ] ]

RECURSIVE Stores(_)
\* The stores of at most n catalogue objects.
Stores(n) ==
    IF n = 0 THEN { {} }
    ELSE Stores(n - 1)
         \cup { S \cup { Catalogue[i] } : S \in Stores(n - 1), i \in 1..Len(Catalogue) }

NoFiles == [ n \in {} |-> 0 ]

InitCleanupVars ==
    /\ files = << >>
    /\ backupGroups = << >>
    /\ todo = {}
    /\ cur = << >>
    /\ created = [ ok |-> FALSE, t |-> 0 ]
    /\ di = 1
    /\ cleanupRet = ""

InitUploadVars ==
    /\ splitSize = 0
    /\ filesToUpload = << >>
    /\ fileNames = << >>
    /\ uploadedFileIDs = << >>
    /\ ui = 1
    /\ uploadRet = NoReturn
    /\ chunkNum = 1
    /\ chunkFiles = << >>
    /\ offset = 0
    /\ splitRet = ""

\* cleanupOldBackups alone, on every store of up to MaxFiles catalogue objects.
InitSweep ==
    /\ pc = "cl_list"
    /\ phase = 1
    /\ now = StartTime
    /\ retentionDays \in 0..MaxRetentionDays
    /\ splitSizeStr = << >>
    /\ safeTs = FALSE
    /\ tzOff = 0
    /\ remote \in Stores(MaxFiles)
    /\ nextId = Len(Catalogue) + 1
    /\ apiLog = << >>
    /\ InitCleanupVars
    /\ folders = << >>
    /\ fidx = 1
    /\ tarName = << >>
    /\ buildLog = << >>
    /\ compressRet = NoBuild
    /\ localFiles = NoFiles
    /\ InitUploadVars

SweepSpec == InitSweep /\ [][CleanupNext]_vars

StampLate == formatTimestampForFilename(Horizon + 1, 0, FALSE)

\* More names found in the store: the archive of the folder b.tar.gz, a later
\* archive of that folder, a chunk of its first archive, the archive of the
\* folder f, and two objects that are no backups: x.part and x.tar.gz.x.
OtherNames ==
    << TarName(FolderDotted, Stamp),
       TarName(FolderDotted, StampLate),
       ChunkName(BaseName(TarName(FolderDotted, Stamp)), 1),
       TarName(FolderF, Stamp),
       << "x" >> \o DotPart,
       << "x" >> \o DotTarGz \o << ".", "x" >> >>

\* Their createdTime values: one hour before the horizon, one hour after it,
\* and a value that is no RFC3339 time.
OtherTimes ==
    << FormatRFC3339(Horizon - 1, 0), FormatRFC3339(Horizon + 1, 0), << >> >>

OtherCatalogue ==
    [ i \in 1..(Len(OtherNames) * Len(OtherTimes)) |->
        [ id      |-> i,
          name    |-> OtherNames[((i - 1) \div Len(OtherTimes)) + 1],
          created |-> OtherTimes[((i - 1) % Len(OtherTimes)) + 1],
          trashed |-> FALSE ] ]

MaxOtherFiles == 2

\* cleanupOldBackups alone, on every store of up to MaxOtherFiles objects of
\* OtherCatalogue.
InitOtherSweep ==
    /\ pc = "cl_list"
    /\ phase = 1
    /\ now = StartTime
    /\ retentionDays \in 0..MaxRetentionDays
    /\ splitSizeStr = << >>
    /\ safeTs = FALSE
    /\ tzOff = 0
    /\ \E ids \in SUBSET (1..Len(OtherCatalogue)) :
          /\ Cardinality(ids) <= MaxOtherFiles
          /\ remote = { OtherCatalogue[i] : i \in ids }
    /\ nextId = Len(OtherCatalogue) + 1
    /\ apiLog = << >>
    /\ InitCleanupVars
    /\ folders = << >>
    /\ fidx = 1
    /\ tarName = << >>
    /\ buildLog = << >>
    /\ compressRet = NoBuild
    /\ localFiles = NoFiles
    /\ InitUploadVars

OtherSweepSpec == InitOtherSweep /\ [][CleanupNext]_vars

\* uploadToDrive alone, on an archive of every size up to MaxSize.
InitUpload ==
    /\ pc = "up_start"
    /\ phase = 2
    /\ now = StartTime
    /\ retentionDays = 1
    /\ splitSizeStr \in SplitSizeStrs
    /\ safeTs \in BOOLEAN
    /\ tzOff \in {0, -3}
    /\ remote = {}
    /\ nextId = 1
    /\ apiLog = << >>
    /\ InitCleanupVars
    /\ \E name \in {FolderF, FolderG, FolderDotted}, size \in 1..MaxSize :
          /\ folders = << [ name |-> name, isDir |-> TRUE, size |-> size ] >>
          /\ tarName = TarName(name, formatTimestampForFilename(now, tzOff, safeTs))
          /\ localFiles = WriteFile(NoFiles, tarName, size)
    /\ fidx = 1
    /\ buildLog = << >>
    /\ compressRet = NoBuild
    /\ InitUploadVars

\* uploadToDrive alone, on an archive of 3 bytes, with every size string of
\* SizeTexts and BadSizeTexts in UPLOAD_SPLIT_SIZE.
InitParse ==
    /\ pc = "up_start"
    /\ phase = 2
    /\ now = StartTime
    /\ retentionDays = 1
    /\ splitSizeStr \in SizeTexts \cup BadSizeTexts
    /\ safeTs = FALSE
    /\ tzOff = 0
    /\ remote = {}
    /\ nextId = 1
    /\ apiLog = << >>
    /\ InitCleanupVars
    /\ folders = << [ name |-> FolderF, isDir |-> TRUE, size |-> 3 ] >>
    /\ tarName = TarName(FolderF, formatTimestampForFilename(now, tzOff, safeTs))
    /\ localFiles = WriteFile(NoFiles, tarName, 3)
    /\ fidx = 1
    /\ buildLog = << >>
    /\ compressRet = NoBuild
    /\ InitUploadVars

ParseSpec == InitParse /\ [][UploadNext]_vars

UploadSpec == InitUpload /\ [][UploadNext]_vars

Dir(name, size) == [ name |-> name, isDir |-> TRUE, size |-> size ]

\* An entry of the backup directory that is a plain file.
PlainFile(name) == [ name |-> name, isDir |-> FALSE, size |-> 0 ]

\* The backup directories of the passes checked: os.ReadDir lists by name.
FolderLists ==
    { << Dir(FolderF, 4) >>,
      << Dir(FolderF, 2), PlainFile(FolderG) >>,
      << Dir(FolderDotted, 3), Dir(FolderF, 6) >> }

\* A whole pass of main, on a store of at most one catalogue object.
Init ==
    /\ pc = "setup"
    /\ phase = 1
    /\ now = StartTime
    /\ retentionDays \in 0..MaxRetentionDays
    /\ splitSizeStr \in { << >>, << "3", " ", "B" >> }
    /\ safeTs = FALSE
    /\ tzOff = -3
    /\ remote \in Stores(1)
    /\ nextId = Len(Catalogue) + 1
    /\ apiLog = << >>
    /\ InitCleanupVars
    /\ folders \in FolderLists
    /\ fidx = 1
    /\ tarName = << >>
    /\ buildLog = << >>
    /\ compressRet = NoBuild
    /\ localFiles = NoFiles
    /\ InitUploadVars

Next == MainNext \/ CleanupNext \/ UploadNext

Spec == Init /\ [][Next]_vars

(***************************************************************************)
(* Properties                                                              *)
(***************************************************************************)

SweepPcs == { "cl_list", "cl_groups", "cl_parsed", "cl_delete", "cl_ret" }

Requests(op) == { i \in 1..Len(apiLog) : apiLog[i].op = op }

\* The identifiers of the objects created by the pass.
CreatedIds == { apiLog[i].id : i \in { j \in Requests("create") : apiLog[j].ok } }

\* C1: in a pass the sweeper's list call and every one of its delete attempts
\* come before the first archive is built or uploaded: while the sweeper runs
\* nothing has been built, written to the temporary directory or created in the
\* store, no list or delete request follows a create request, and no object
\* created in the pass is the target of a delete of that pass (whatever
\* retentionDays is, 0 included).
C1_SweepBeforeArchives ==
    /\ pc \in SweepPcs =>
          /\ buildLog = << >>
          /\ compressRet = NoBuild
          /\ DOMAIN localFiles = {}
          /\ Requests("create") = {}
    /\ buildLog # << >> => cleanupRet \in { "nil", "error" }
    /\ \A i \in Requests("create") : \A j \in Requests("list") \cup Requests("delete") : j < i
    /\ \A j \in Requests("delete") : apiLog[j].id \notin CreatedIds

\* A pass with retentionDays = 0 that deleted an object of the store and then
\* uploaded an archive.
C1_Witness ==
    /\ pc = "done"
    /\ retentionDays = 0
    /\ \E j \in Requests("delete") : apiLog[j].ok
    /\ CreatedIds # {}
    /\ CreatedIds \subseteq { f.id : f \in remote }

\* The delete requests sent for the object id.
DeleteAttempts(id) == { j \in Requests("delete") : apiLog[j].id = id }

SweepReturnedNil == pc = "cl_ret" /\ cleanupRet = "nil"

AllParse(group) == \A i \in 1..Len(group) : ParseRFC3339(group[i].created).ok

\* The earliest creation instant among the members of a group whose times parse.
MinInstant(group) ==
    LET ts == { ParseRFC3339(group[i].created).t : i \in 1..Len(group) }
    IN  CHOOSE t \in ts : \A u \in ts : t <= u

\* The creation time of a group as the sweeper takes it: the parsed createdTime
\* of the member its scan for the earliest ends on.
GroupTime(group) == ParseRFC3339(Earliest(group).created)

\* C2: with retentionDays > 0, a member of a group has a delete attempted only
\* if the creation time of its group is strictly before now - retentionDays
\* days: no member of a group whose time is at or after that horizon has one,
\* and once the sweep has returned every member of a group whose time is
\* strictly before the horizon has one.
C2_DeleteIffStrictlyOlder ==
    retentionDays > 0 =>
        \A k \in DOMAIN backupGroups :
            LET group == backupGroups[k]
                older == GroupTime(group).ok
                         /\ GroupTime(group).t < now - retentionDays * HoursPerDay
            IN  /\ (\E i \in 1..Len(group) : DeleteAttempts(group[i].id) # {}) => older
                /\ (SweepReturnedNil /\ older) =>
                      \A i \in 1..Len(group) : DeleteAttempts(group[i].id) # {}

\* A sweep with retentionDays = 1 that kept a group created exactly one day ago
\* and attempted to delete the member of a group created one hour earlier.
C2_Witness ==
    /\ SweepReturnedNil
    /\ retentionDays = 1
    /\ \E k1, k2 \in DOMAIN backupGroups :
          /\ GroupTime(backupGroups[k1]).ok
          /\ GroupTime(backupGroups[k1]).t = now - HoursPerDay
          /\ \A i \in 1..Len(backupGroups[k1]) : DeleteAttempts(backupGroups[k1][i].id) = {}
          /\ GroupTime(backupGroups[k2]).ok
          /\ GroupTime(backupGroups[k2]).t = now - HoursPerDay - 1
          /\ \A i \in 1..Len(backupGroups[k2]) : DeleteAttempts(backupGroups[k2][i].id) # {}

\* C3 (as claimed): with retentionDays = 0, once the sweep has returned, every
\* listed object has had a delete attempted, whatever its createdTime.
C3_ZeroRetentionDeletesEverything ==
    (retentionDays = 0 /\ SweepReturnedNil) =>
        \A i \in 1..Len(files) : DeleteAttempts(files[i].id) # {}

\* The group is one the sweeper deletes: its time parses and retentionDays is 0
\* or the time is before the horizon.
Eligible(group) ==
    LET t == ParseRFC3339(Earliest(group).created)
    IN  t.ok /\ ShouldDelete(retentionDays, t.t, Cutoff(now, retentionDays))

\* C4: once the sweep has returned, every member of every eligible group has
\* had exactly one delete attempted, whether or not other deletes failed, and
\* a sweep whose list call succeeded returns nil.
C4_EachMemberDeletedOnceDespiteFailures ==
    pc = "cl_ret" =>
        /\ cleanupRet = (IF apiLog[1].ok THEN "nil" ELSE "error")
        /\ apiLog[1].ok =>
              \A k \in DOMAIN backupGroups :
                  Eligible(backupGroups[k]) =>
                      \A i \in 1..Len(backupGroups[k]) :
                          Cardinality(DeleteAttempts(backupGroups[k][i].id)) = 1

\* A sweep of two eligible groups, three members in all, whose first delete
\* failed and which went on to attempt the other two and returned nil.
C4_Witness ==
    /\ SweepReturnedNil
    /\ Cardinality(DOMAIN backupGroups) = 2
    /\ \A k \in DOMAIN backupGroups : Eligible(backupGroups[k])
    /\ Len(files) = 3
    /\ Cardinality(Requests("delete")) = 3
    /\ ~apiLog[2].ok
    /\ apiLog[3].ok

MaxPasses == 2

\* The container is run every other day.
PassInterval == 2 * HoursPerDay

\* The time of the last pass.
LastPassTime == StartTime + (MaxPasses - 1) * PassInterval

\* The container is run again, PassInterval later: a new process, with a new temporary
\* directory, on the same backup directory, environment and store.
NextPass ==
    /\ pc \in { "done", "exit" }
    /\ now < LastPassTime
    /\ now' = now + PassInterval
    /\ pc' = "setup"
    /\ phase' = 1
    /\ apiLog' = << >>
    /\ localFiles' = NoFiles
    /\ files' = << >> /\ backupGroups' = << >> /\ todo' = {} /\ cur' = << >>
    /\ created' = [ ok |-> FALSE, t |-> 0 ] /\ di' = 1 /\ cleanupRet' = ""
    /\ fidx' = 1 /\ tarName' = << >> /\ buildLog' = << >> /\ compressRet' = NoBuild
    /\ splitSize' = 0 /\ filesToUpload' = << >> /\ fileNames' = << >>
    /\ uploadedFileIDs' = << >> /\ ui' = 1 /\ uploadRet' = NoReturn
    /\ chunkNum' = 1 /\ chunkFiles' = << >> /\ offset' = 0 /\ splitRet' = ""
    /\ UNCHANGED << retentionDays, splitSizeStr, safeTs, tzOff, remote, nextId, folders >>

\* The first pass finds in the store an object created after the horizon and
\* one whose createdTime is no RFC3339 time; the one folder is split in two
\* parts.
InitPasses ==
    /\ pc = "setup"
    /\ phase = 1
    /\ now = StartTime
    /\ retentionDays \in 1..(MaxPasses - 1)
    /\ splitSizeStr = << "1", "b" >>
    /\ safeTs = FALSE
    /\ tzOff = -3
    /\ remote = { Catalogue[3], Catalogue[Len(Catalogue)] }
    /\ nextId = Len(Catalogue) + 1
    /\ apiLog = << >>
    /\ InitCleanupVars
    /\ folders = << Dir(FolderF, 2), PlainFile(FolderG) >>
    /\ fidx = 1
    /\ tarName = << >>
    /\ buildLog = << >>
    /\ compressRet = NoBuild
    /\ localFiles = NoFiles
    /\ InitUploadVars

PassesNext == Next \/ NextPass

\* Passes that keep being run: every step that can be taken is taken.
PassesSpec == InitPasses /\ [][PassesNext]_vars /\ WF_vars(PassesNext)

\* The pass as a running process: main is one goroutine, and a step that can be
\* taken is taken (every call to the file system or the store returns).
FairSpec == Init /\ [][Next]_vars /\ WF_vars(Next)

(***************************************************************************)
(* Names, parts and identifiers of an upload (UploadSpec)                  *)
(***************************************************************************)

\* The folder the archive was built from, and the timestamp in its name.
FolderName == folders[1].name

Timestamp == formatTimestampForFilename(now, tzOff, safeTs)

\* <folderName>_<timestamp>
ArchiveKey == FolderName \o << "_" >> \o Timestamp

CleanName(n) == ~Contains(n, DotTarGz) /\ ~Contains(n, DotTarPart)

\* The create requests sent so far, in order.
Creates == SelectSeq(apiLog, LAMBDA r : r.op = "create")

\* splitFile was called for the archive.
SplitInvoked == pc \in { "sp_open", "sp_loop", "sp_ret" } \/ splitRet # ""

\* The archive was partitioned and its parts are being, or were, uploaded.
Partitioned == splitRet = "nil" /\ pc \in { "up_loop", "up_rm", "up_ret" }

UploadSucceeded == pc = "up_ret" /\ uploadRet.err = "nil"

\* k written in decimal, zero-padded to at least three digits.
Padded(k) ==
    IF k < 10 THEN << "0", "0" >> \o Decimal(k)
    ELSE IF k < 100 THEN << "0" >> \o Decimal(k)
    ELSE Decimal(k)

\* C6: for a folder name holding neither ".tar.gz" nor ".tar.part", every name
\* the upload produces for the archive <folderName>_<timestamp>.tar.gz (the file
\* names it is about to upload, the names in its create requests, the names of
\* the objects in the store, which are not trashed) is selected by the sweeper's
\* list query and has the group key <folderName>_<timestamp>, so that the objects
\* of the store have one key between them; and the names <key>.tar.gz and <key>.tar.gz.partNNN
\* have the key <key> as well.
C6_ProducedNamesShareTheGroupKey ==
    LET key == ArchiveKey
    IN  CleanName(FolderName) =>
            /\ \A i \in 1..Len(fileNames) :
                  /\ QueryMatches([ name |-> fileNames[i], trashed |-> FALSE ])
                  /\ Prefix(fileNames[i]) = key
            /\ \A i \in 1..Len(Creates) : Creates[i].name = fileNames[i]
            /\ \A o \in remote :
                  /\ \E i \in 1..Len(fileNames) : o.name = fileNames[i]
                  /\ ~o.trashed
            /\ pc = "up_start" =>
                  /\ Prefix(key \o DotTarGz) = key
                  /\ \A k \in 1..MaxSize :
                        Prefix(key \o DotTarGz \o DotPart \o Padded(k)) = key

\* An archive of a clean folder name that was split and whose three or more
\* parts are all in the store.
C6_Witness ==
    /\ CleanName(FolderName)
    /\ UploadSucceeded
    /\ Partitioned
    /\ Cardinality(remote) >= 3

\* C7 (as claimed): the k-th part of a split archive is uploaded under the name
\* <folderName>_<timestamp>.tar.gz.partNNN, NNN being k zero-padded to three
\* digits.
C7_PartsNamedAfterArchiveName ==
    Partitioned =>
        \A k \in 1..Len(Creates) :
            Creates[k].name = ArchiveKey \o DotTarGz \o DotPart \o Padded(k)

\* C7 (amended): the k-th part of a split archive is uploaded under the name
\* <folderName>_<timestamp>.tar.partNNN, NNN being k zero-padded to at least
\* three digits: the ".gz" extension of the archive's name is dropped before
\* ".partNNN" is added.
C7_PartsNamedAfterBaseName ==
    Partitioned =>
        /\ \A k \in 1..Len(fileNames) :
              fileNames[k] = ArchiveKey \o << ".", "t", "a", "r" >> \o DotPart \o Padded(k)
        /\ \A k \in 1..Len(Creates) : Creates[k].name = fileNames[k]

\* An archive split into ten parts, all uploaded: the tenth is named ...part010.
C7_Witness ==
    /\ UploadSucceeded
    /\ Partitioned
    /\ Len(Creates) = 10
    /\ HasSuffix(Creates[10].name, << ".", "t", "a", "r", ".", "p", "a", "r", "t", "0", "1", "0" >>)

RECURSIVE SumOfSizes(_, _)
SumOfSizes(f, paths) ==
    IF paths = << >> THEN 0 ELSE f[Head(paths)] + SumOfSizes(f, Tail(paths))

\* ceil(s / c)
CeilDiv(s, c) == (s + c - 1) \div c

C9_SplitIffValidSizeExceeded ==
    LET S == localFiles[tarName]
        valid == /\ splitSizeStr # << >>
                 /\ \E r \in parseSizeString(splitSizeStr) : r.ok /\ SizeOf(r.n) = splitSize
        exceeded == valid /\ splitSize > 0 /\ S > splitSize
    IN  pc # "up_start" =>
            /\ (pc # "up_stat" /\ uploadRet.err # "stat") => (SplitInvoked <=> exceeded)
            /\ pc = "up_stat" => ~SplitInvoked
            /\ ~exceeded =>
                  /\ Len(Creates) <= 1
                  /\ \A i \in 1..Len(Creates) : Creates[i].name = tarName
                  /\ UploadSucceeded =>
                        /\ Len(Creates) = 1
                        /\ \E o \in remote : remote = { o } /\ o.name = tarName
            /\ (splitSizeStr # << >> /\ ~valid) =>
                  /\ splitSize = 0
                  /\ uploadRet.err \in { "", "nil", "stat", "open", "upload" }

\* An archive of exactly the configured split size, uploaded whole.
C9_Witness ==
    /\ UploadSucceeded
    /\ \E r \in parseSizeString(splitSizeStr) : r.ok /\ localFiles[tarName] = SizeOf(r.n)
    /\ ~SplitInvoked
    /\ Cardinality(remote) = 1

\* The identifiers the store returned for the successful creates, in order.
CreatedIdsInOrder ==
    LET done == SelectSeq(Creates, LAMBDA r : r.ok)
    IN  [ k \in 1..Len(done) |-> done[k].id ]

\* What the caller receives, read as a list of identifiers.
ReturnedIds == << uploadRet.id >>

\* C10 (as claimed): on success the upload returns the list of the identifiers
\* of all uploaded parts, in upload order: as many as there are parts, the k-th
\* being the identifier the store returned for the k-th part.
C10_ReturnsAllIdentifiers ==
    UploadSucceeded =>
        /\ Len(ReturnedIds) = Len(filesToUpload)
        /\ ReturnedIds = CreatedIdsInOrder

\* C10 (amended): on success the upload returns one identifier, the one the
\* store returned for the first uploaded part (the only one when unsplit); the
\* identifiers of all parts, one per part in upload order, are collected in
\* uploadedFileIDs and only logged.
C10_ReturnsFirstIdentifier ==
    UploadSucceeded =>
        /\ uploadRet.id = CreatedIdsInOrder[1]
        /\ uploadedFileIDs = CreatedIdsInOrder
        /\ Len(uploadedFileIDs) = Len(filesToUpload)

\* A split archive of three or more parts, all uploaded.
C10_Witness ==
    /\ UploadSucceeded
    /\ Partitioned
    /\ Len(uploadedFileIDs) >= 3

(***************************************************************************)
(* Failures and local files of an upload                                   *)
(***************************************************************************)

\* C11: when the create of part k of n fails, uploadToDrive returns an error
\* that names part k; requests were sent for the parts 1..k only, the first k-1
\* of them succeeded and their objects are in the store, and no delete was sent.
C11_FailedPartStopsUploadWithoutRollback ==
    (pc = "up_ret" /\ uploadRet.err = "upload") =>
        LET k == Len(Creates)
        IN  /\ k >= 1 /\ k <= Len(fileNames)
            /\ ui = k
            /\ ~Creates[k].ok
            /\ uploadRet.name = fileNames[k]
            /\ uploadRet.id = 0
            /\ \A i \in 1..k : Creates[i].name = fileNames[i]
            /\ \A i \in 1..(k - 1) :
                  /\ Creates[i].ok
                  /\ \E o \in remote : o.id = Creates[i].id /\ o.name = fileNames[i]
            /\ Cardinality(remote) = k - 1
            /\ Requests("delete") = {}

\* The second of three or more parts failed: one part is left in the store.
C11_Witness ==
    /\ pc = "up_ret"
    /\ uploadRet.err = "upload"
    /\ Len(fileNames) >= 3
    /\ Len(Creates) = 2
    /\ Cardinality(remote) = 1

\* The local files that a step removes.
RemovedFiles == (DOMAIN localFiles) \ (DOMAIN localFiles')

\* C12 (as claimed): when the upload of part k+1 of a split archive is about to
\* start, the local files of the parts 1..k are deleted.
C12_UploadedPartFilesAreGone ==
    (Partitioned /\ pc = "up_loop") =>
        \A i \in 1..(ui - 1) : filesToUpload[i] \notin DOMAIN localFiles

\* C12 (amended): the parts of a split archive are uploaded one at a time in
\* ascending number, each at most once: a create request is sent for part ui
\* when the parts before it have each had one request. The only local file a
\* step of the upload removes is that of the part whose create has just
\* succeeded, and after a successful create the next step is the attempt to
\* remove that part's file, which comes before the next part's turn; when the
\* attempt fails the file stays and the upload goes on. The files of the parts
\* not yet uploaded are on disk.
C12_PartsUploadedInOrderThenRemoved ==
    [][ Partitioned =>
          /\ Len(apiLog') > Len(apiLog) =>
                /\ pc = "up_loop"
                /\ Len(Creates) = ui - 1
                /\ apiLog' = Append(apiLog, apiLog'[Len(apiLog')])
                /\ apiLog'[Len(apiLog')].name = BaseName(tarName) \o DotPart \o Padded(ui)
                /\ apiLog'[Len(apiLog')].ok => (pc' = "up_rm" /\ ui' = ui)
          /\ RemovedFiles # {} =>
                /\ pc = "up_rm"
                /\ RemovedFiles = { filesToUpload[ui] }
                /\ Creates[Len(Creates)].ok
                /\ Creates[Len(Creates)].name = fileNames[ui]
          /\ pc = "up_rm" =>
                /\ pc' = "up_loop" /\ ui' = ui + 1
                /\ apiLog' = apiLog
                /\ RemovedFiles \subseteq { filesToUpload[ui] }
          /\ \A i \in 1..Len(filesToUpload) :
                (i > ui \/ (i = ui /\ pc = "up_loop")) => filesToUpload[i] \in DOMAIN localFiles
      ]_vars

\* Three parts uploaded; the file of the first could not be removed and is
\* still on disk, those of the other two are gone.
C12_Witness ==
    /\ UploadSucceeded
    /\ Partitioned
    /\ Len(filesToUpload) = 3
    /\ filesToUpload[1] \in DOMAIN localFiles
    /\ filesToUpload[2] \notin DOMAIN localFiles
    /\ filesToUpload[3] \notin DOMAIN localFiles

(***************************************************************************)
(* The pass over the folders (Spec)                                        *)
(***************************************************************************)

UploadPcs == { "up_start", "up_stat", "sp_open", "sp_loop", "sp_ret", "up_loop", "up_rm" }

\* C13 (as claimed): after a folder whose build and upload both succeeded its
\* local archive no longer exists.
C13_UploadedArchiveIsGone ==
    [][ (pc = "up_ret" /\ uploadRet.err = "nil") => tarName \notin DOMAIN localFiles' ]_vars

\* C13 (amended): a local archive (a file named ....tar.gz) is removed only by
\* the step that follows the successful return of its upload, when every file
\* to upload has its object in the store; that step attempts the removal and
\* moves on to the next folder whether or not the removal succeeded. While the
\* archive is being split or uploaded it is on disk, and the steps that follow
\* a failed build or a failed upload remove nothing.
C13_ArchiveRemovedOnlyAfterUpload ==
    [][ /\ (\E n \in RemovedFiles : HasSuffix(n, DotTarGz)) =>
              /\ pc = "up_ret" /\ uploadRet.err = "nil"
              /\ RemovedFiles = { tarName }
              /\ Len(filesToUpload) >= 1
              /\ Len(uploadedFileIDs) = Len(filesToUpload)
              /\ \A i \in 1..Len(filesToUpload) :
                    \E o \in remote : o.id = uploadedFileIDs[i] /\ o.name = fileNames[i]
        /\ (pc = "up_ret" /\ uploadRet.err = "nil") =>
              /\ RemovedFiles \subseteq { tarName }
              /\ pc' = "fo_loop" /\ fidx' = fidx + 1
        /\ (pc = "fo_compress" \/ (pc = "up_ret" /\ uploadRet.err # "nil")) =>
              RemovedFiles = {}
        /\ pc \in UploadPcs => tarName \in DOMAIN localFiles
      ]_vars

\* A folder whose archive was split, uploaded in two parts and then removed.
C13_Witness ==
    /\ pc = "fo_loop"
    /\ fidx = 2
    /\ uploadRet.err = "nil"
    /\ Len(uploadedFileIDs) = 2
    /\ Cardinality(CreatedIds) = 2
    /\ tarName \notin DOMAIN localFiles

\* The names of the directories among the entries, in the order of the listing.
DirNames(entries) ==
    LET dirs == SelectSeq(entries, LAMBDA e : e.isDir)
    IN  [ i \in 1..Len(dirs) |-> dirs[i].name ]

\* C14: once setup has succeeded the pass terminates, and when it does the
\* archive build has been attempted once for every directory of the backup
\* directory, in the order of the listing, whatever failed on the way.
C14_EveryFolderAttempted ==
    (pc = "main" /\ phase = 1) ~> (pc = "done" /\ buildLog = DirNames(folders))

\* A finished pass over two folders in which the list call of the sweep and
\* the create of the first folder's archive failed and the second folder's
\* archive was uploaded.
C14_Witness ==
    /\ pc = "done"
    /\ Len(folders) = 2
    /\ buildLog = DirNames(folders)
    /\ Len(buildLog) = 2
    /\ ~apiLog[1].ok
    /\ Len(Creates) >= 2
    /\ ~Creates[1].ok
    /\ Cardinality(CreatedIds) >= 1

\* The request a step adds to the log of the store, if it adds a create.
SendsCreate == Len(apiLog') = Len(apiLog) + 1 /\ apiLog'[Len(apiLog')].op = "create"

\* C15: the step in which compressFolder returns an error sends nothing to the
\* store, removes no file (what was written stays at the destination) and
\* moves on to the next folder; and every create request is sent for the
\* archive of the current folder while the archive of that folder, written by
\* a build that returned nil (complete unless a Close failed), is on disk.
C15_NoUploadAfterFailedBuild ==
    [][ /\ (pc = "fo_compress" /\ compressRet'.err # "nil") =>
              /\ pc' = "fo_loop" /\ fidx' = fidx + 1
              /\ apiLog' = apiLog /\ remote' = remote
              /\ RemovedFiles = {}
              /\ tarName \in DOMAIN localFiles' => localFiles'[tarName] < folders[fidx].size
        /\ SendsCreate =>
              /\ pc = "up_loop"
              /\ buildLog[Len(buildLog)] = folders[fidx].name
              /\ tarName = TarName(folders[fidx].name, Timestamp)
              /\ apiLog'[Len(apiLog')].name \in { tarName } \cup
                    { BaseName(tarName) \o DotPart \o Padded(k) : k \in 1..MaxSize }
              /\ tarName \in DOMAIN localFiles
              /\ compressRet.err = "nil"
              /\ ~compressRet.closeErr => localFiles[tarName] = folders[fidx].size
      ]_vars

\* A finished pass over two folders: the build of the first failed and left a
\* partial archive, for which no request was sent; the second was uploaded.
C15_Witness ==
    /\ pc = "done"
    /\ Len(folders) = 2
    /\ Len(buildLog) = 2
    /\ TarName(folders[1].name, Timestamp) \in DOMAIN localFiles
    /\ localFiles[TarName(folders[1].name, Timestamp)] < folders[1].size
    /\ Len(Creates) >= 1
    /\ \A i \in 1..Len(Creates) : Creates[i].name # TarName(folders[1].name, Timestamp)
    /\ Cardinality(CreatedIds) >= 1

(***************************************************************************)
(* Partial groups over passes (PassesSpec)                                 *)
(***************************************************************************)

\* The createdTime the store gives to the objects created in the first pass.
FirstStamp == FormatRFC3339(StartTime, 0)

\* The upload of the first pass failed, at the open or the create of a part,
\* after it had created a part.
PartialGroupLeft ==
    /\ now = StartTime
    /\ pc = "up_ret"
    /\ uploadRet.err \in { "open", "upload" }
    /\ uploadedFileIDs # << >>

\* The members of the first pass's group are older than the retention horizon.
FirstGroupExpired == StartTime < now - retentionDays * HoursPerDay

\* A sweep run after the group has expired has returned: it listed every member
\* of the group still in the store and attempted a delete on each.
PartialGroupSwept ==
    /\ FirstGroupExpired
    /\ pc = "cl_ret"
    /\ cleanupRet = "nil"
    /\ \A o \in remote : o.created = FirstStamp => \E i \in 1..Len(files) : files[i].id = o.id
    /\ \A i \in 1..Len(files) :
          files[i].created = FirstStamp => DeleteAttempts(files[i].id) # {}

\* After the group has expired a pass did not get to sweep: its setup was fatal
\* or its list call failed.
SweepPrevented ==
    /\ FirstGroupExpired
    /\ pc = "exit" \/ (pc = "cl_ret" /\ cleanupRet = "error")

ExpectedBytes(f) == DivPow10(ShiftLimbs(FromDigits(f.int \o f.frac), f.n), Len(f.frac))

\* 100 * 1024^2 = 104857600
HundredMb == << 0, 0, 100 >>

\* C17: for every well-formed size string, parseSizeString returns
\* floor(number * 1024^n) when that value is > 0 and an error when it is 0,
\* whatever the case of the unit, the whitespace around the string and the
\* space before the unit ("100MB", "100mb" and "100 mb" give 104857600); it
\* returns an error for a string with no unit, an unrecognized unit or a
\* magnitude that is not a number; uploadToDrive takes the split size from it.
C17_ParseSizeStringIsFloorOfProduct ==
    pc # "up_start" =>
        /\ \A f \in SizeForms : SizeText(f) = splitSizeStr =>
              \A r \in parseSizeString(splitSizeStr) :
                  IF ExpectedBytes(f) = << >> THEN ~r.ok
                  ELSE r.ok /\ r.n = ExpectedBytes(f)
        /\ splitSizeStr \in { << "1", "0", "0", "M", "B" >>, << "1", "0", "0", "m", "b" >>,
                              << "1", "0", "0", " ", "m", "b" >> } =>
              parseSizeString(splitSizeStr) = { [ ok |-> TRUE, n |-> HundredMb ] }
        /\ splitSizeStr \in BadSizeTexts =>
              parseSizeString(splitSizeStr) = { ParseError } /\ splitSize = 0
        /\ \E r \in parseSizeString(splitSizeStr) :
              splitSize = IF r.ok THEN SizeOf(r.n) ELSE 0

\* The number of digits a name ends with.
TrailingDigits(name) ==
    LET stop == { i \in 1..Len(name) : ~IsDigit(name[i]) }
    IN  IF stop = {} THEN Len(name)
        ELSE Len(name) - (CHOOSE i \in stop : \A j \in stop : j <= i)

\* The name ends with .tar.partNNN.
HasPartSuffix(name) ==
    /\ TrailingDigits(name) >= 3
    /\ HasSuffix(Slice(name, 0, Len(name) - TrailingDigits(name)), DotTarPart)

\* The name without its trailing .tar.gz or .tar.partNNN.
TrailingKey(name) ==
    IF HasSuffix(name, DotTarGz) THEN TrimSuffix(name, DotTarGz)
    ELSE IF HasPartSuffix(name)
    THEN Slice(name, 0, Len(name) - TrailingDigits(name) - Len(DotTarPart))
    ELSE name

\* The listed artifacts named as the program names what it uploads.
IsBackupName(name) == HasSuffix(name, DotTarGz) \/ HasPartSuffix(name)

\* C18: after the listing, every artifact named <folderName>_<timestamp>.tar.gz
\* or <folderName>_<timestamp>.tar.partNNN is in the group whose key is its name
\* without that trailing suffix, also when the folder name holds ".tar.gz" or
\* ".tar.part"; so two such artifacts of one group belong to one archive.
C18_GroupKeyIsNameWithoutTrailingSuffix ==
    pc \in { "cl_groups", "cl_parsed", "cl_delete" } =>
        \A k \in DOMAIN backupGroups : \A i, j \in 1..Len(backupGroups[k]) :
            (IsBackupName(backupGroups[k][i].name) /\ IsBackupName(backupGroups[k][j].name)) =>
                /\ k = TrailingKey(backupGroups[k][i].name)
                /\ TrailingKey(backupGroups[k][i].name) = TrailingKey(backupGroups[k][j].name)

\* The listed object is a member of the group of that key.
InGroup(f, k) ==
    k \in DOMAIN backupGroups /\ \E i \in 1..Len(backupGroups[k]) : backupGroups[k][i] = f

\* The key the claim gives a listed name: the full name when it holds neither
\* ".tar.gz" nor ".tar.part", else the text before the first of them.
IsKeyOf(k, name) ==
    IF CleanName(name) THEN k = name
    ELSE /\ CleanName(k)
         /\ HasPrefixAt(name, k, 0)
         /\ \/ HasPrefixAt(name, DotTarGz, Len(k))
            \/ (~Contains(name, DotTarGz) /\ HasPrefixAt(name, DotTarPart, Len(k)))

DeleteAttempted(f) ==
    \E i \in 1..Len(apiLog) : apiLog[i].op = "delete" /\ apiLog[i].id = f.id

SweepReturned == pc = "cl_ret" /\ cleanupRet = "nil"

\* The creation time of the object is before the horizon.
CreatedBeforeHorizon(f) ==
    ParseRFC3339(f.created).ok /\ ParseRFC3339(f.created).t < Cutoff(now, retentionDays)

\* C19: every object the list call returned, whatever its name, is in the group
\* of its key (x.part under its full name, x.tar.gz.x under x), and when the
\* sweep has returned a delete was attempted on every listed object that is no
\* backup archive if retentionDays = 0 or its creation time is before the
\* horizon.
C19_ForeignArtifactsSweptByAge ==
    /\ pc \in { "cl_groups", "cl_parsed", "cl_delete" } \/ SweepReturned =>
          \A i \in 1..Len(files) :
              \E k \in DOMAIN backupGroups : IsKeyOf(k, files[i].name) /\ InGroup(files[i], k)
    /\ SweepReturned =>
          \A i \in 1..Len(files) :
              (~IsBackupName(files[i].name)
                  /\ (retentionDays = 0 \/ CreatedBeforeHorizon(files[i])))
              => DeleteAttempted(files[i])

\* The same, for the groups whose earliest createdTime is an RFC3339 time.
C19_ForeignArtifactsSweptByAgeWhenTimesParse ==
    /\ pc \in { "cl_groups", "cl_parsed", "cl_delete" } \/ SweepReturned =>
          \A i \in 1..Len(files) :
              \E k \in DOMAIN backupGroups : IsKeyOf(k, files[i].name) /\ InGroup(files[i], k)
    /\ SweepReturned =>
          \A i \in 1..Len(files) :
              (~IsBackupName(files[i].name)
                  /\ ParseRFC3339(Earliest(backupGroups[Prefix(files[i].name)]).created).ok
                  /\ (retentionDays = 0 \/ CreatedBeforeHorizon(files[i])))
              => DeleteAttempted(files[i])

\* The sweep has attempted to delete x.part, created before the horizon of a
\* retention of one day, and x.tar.gz.x of the group x.
C19_Witness ==
    /\ SweepReturned
    /\ retentionDays = 1
    /\ \E i, j \in 1..Len(files) :
          /\ files[i].name = OtherNames[5]
          /\ files[j].name = OtherNames[6]
          /\ CreatedBeforeHorizon(files[i])
          /\ InGroup(files[i], OtherNames[5])
          /\ InGroup(files[j], << "x" >>)
          /\ DeleteAttempted(files[i])
          /\ DeleteAttempted(files[j])

\* C20: what compressFolder returns is the result of the walk, whether or not
\* a deferred Close failed; after a walk that succeeded main calls
\* uploadToDrive for the archive at the destination in the same step, also
\* when a Close failed and the archive is short; and every create request is
\* sent after a build whose walk succeeded.
C20_BuildResultIsWalkResult ==
    [][ /\ pc = "fo_compress" =>
              /\ compressRet'.walk # "" => compressRet'.err = compressRet'.walk
              /\ compressRet'.walk = "nil" =>
                    /\ pc' = "up_start"
                    /\ fidx' = fidx /\ tarName' = tarName
                    /\ tarName \in DOMAIN localFiles'
                    /\ compressRet'.closeErr <=> localFiles'[tarName] < folders[fidx].size
        /\ SendsCreate => compressRet.walk = "nil"
      ]_vars

\* A finished pass: a Close failed in the build of the last folder, nil was
\* returned, and the short archive was uploaded under the archive's name.
C20_Witness ==
    /\ pc = "done"
    /\ compressRet = [ walk |-> "nil", closeErr |-> TRUE, err |-> "nil" ]
    /\ uploadRet.err = "nil"
    /\ \E i \in 1..Len(Creates) : Creates[i].ok /\ Creates[i].name = tarName
    /\ \E o \in remote : o.name = tarName /\ o.id \in CreatedIds

====
